---- MODULE Spec2Model ----
(***************************************************************************)
(* The tracking coordinator of client.py as a state machine: the main      *)
(* thread (startup connects, command loop, broadcast_command, quit), one   *)
(* listener thread per connected CameraClient (listen_for_data,            *)
(* _process_server_message, disconnect), the triangulation thread          *)
(* (triangulation_thread_func, triangulate_marker_position), the shared    *)
(* table live_marker_data and its lock data_lock.                          *)
(*                                                                         *)
(* Python threads interleave between statements, so every statement that   *)
(* reads or writes state shared between threads is a step of its own.      *)
(***************************************************************************)
EXTENDS Integers, Sequences, FiniteSets

\* ------------------------------------------------------------------ bounds
NumHosts == 3       \* camera nodes configured (config.SERVER_HOSTS lists 4)
MaxLive == 2        \* camera nodes that are switched on when the coordinator starts
NumMarkers == 2     \* marker ids that occur in data lines
NumPoints == 2      \* distinct image points that occur in data lines
MaxRecs == 2        \* records per received JSON array
MaxTri == 2         \* triangulation threads started during one run
MaxMsgs == 3        \* data messages a camera node sends on one connection
MaxCmds == 2        \* commands delivered to a camera node on one connection

Hosts == 1..NumHosts
\* the nodes that can accept a connection: the last MaxLive configured ones
Answering == {n \in Hosts : n > NumHosts - MaxLive}
Markers == 1..NumMarkers
PosValues == {<<x, x>> : x \in 1..NumPoints}

\* A record of a received JSON array: id = 0 stands for an object without
\* the key 'id', pos = <<>> for an object without the key 'pos'.
Elements == [id : Markers \cup {0}, pos : PosValues \cup {<<>>}]
\* the records about the first marker and the first point only
FewElements == {e \in Elements : e.id <= 1 /\ e.pos \in {<<>>, <<1, 1>>}}

\* the well-formed records about the first marker and the first point
GoodElements == {e \in FewElements : e.id # 0 /\ e.pos # <<>>}

\* What json.loads returns for a line that is valid JSON.
JsonKinds == {"array", "object", "emptyobject", "number", "string", "null"}

\* _process_server_message, line 84, `for marker in marker_positions:` on a
\* JSON value: an array yields its records; a number and null are not
\* iterable (TypeError); a string or a non-empty object yields strings, on
\* which marker['id'] (line 85) raises TypeError; an empty object yields
\* nothing.
LoopOver(kind) ==
    IF kind = "array" THEN "records"
    ELSE IF kind = "emptyobject" THEN "nothing"
    ELSE "TypeError"

\* start_stream / stop_stream as written to the socket: f"{command}\n"
WireLine(command) == <<command, "\n">>

NoThread == 0
None == <<>>
NoRow == [m \in Markers |-> <<>>]

VARIABLES
    mpc, mi, mcmd, server_clients, triangulation_thread,
    sock, is_connected, state, lpc, parsed, idx,
    live_marker_data, data_lock,
    tpc, ti, camera_poses, output_lines,
    sent, bret, closeCalls, calls, raced, afterInvalid, rowBefore, written, lastSeen,
    impl, npc, inbox, wire, nodeSent

\* the coordinator (client.py)
coordVars == <<mpc, mi, mcmd, server_clients, triangulation_thread,
               sock, is_connected, state, lpc, parsed, idx,
               live_marker_data, data_lock,
               tpc, ti, camera_poses, output_lines,
               sent, bret, closeCalls, calls, raced, afterInvalid, rowBefore, written,
               lastSeen>>

\* one camera node (server.py or server/server.py): the program it runs, its
\* position, the commands delivered to its connection and not read, the
\* characters it has sent on the connection; history: the messages it has
\* sent, each with the last command delivered before it
nodeVars == <<impl, npc, inbox, wire, nodeSent>>

vars == <<coordVars, nodeVars>>

\* main: position, loop variable (a host, NumHosts + 1 past the last
\* client), the command being carried out, the dict server_clients (its
\* keys), the variable triangulation_thread (a thread id or NoThread)
mainVars == <<mpc, mi, mcmd, server_clients, triangulation_thread>>
\* CameraClient.sock, .is_connected, .state per host
clientVars == <<sock, is_connected, state>>
\* listener thread per host: position, the kind of JSON value of the line
\* being processed, 1 + the number of records of it already applied
listenVars == <<lpc, parsed, idx>>
tableVars == <<live_marker_data, data_lock>>
\* triangulation threads: position and camera_poses per thread; loop index
\* and output_lines of the cycle that holds the lock
triVars == <<tpc, ti, camera_poses, output_lines>>
\* history: what the running broadcast wrote to each socket, and what
\* broadcast_command returned
sendGhost == <<sent, bret>>
\* history: sock.close() calls, disconnect() calls, and whether two calls
\* of disconnect() on the host ever overlapped
discGhost == <<closeCalls, calls, raced>>
\* history: the previous line was not JSON; the host's entries when the
\* current array started; the last point of the current array per marker;
\* the point of the host's last received record per marker
lineGhost == <<afterInvalid, rowBefore, written, lastSeen>>

\* ------------------------------------------------- the table (dict of dict)
\* live_marker_data is a dict {marker_id: {host: (x, y)}}; Python dicts keep
\* insertion order, so both levels are sequences of key/value entries.
HasKey(t, m) == \E i \in DOMAIN t : t[i].id = m
KeyIdx(t, m) == CHOOSE i \in DOMAIN t : t[i].id = m
ObsOf(t, m) == IF HasKey(t, m) THEN t[KeyIdx(t, m)].obs ELSE <<>>
HasObs(o, h) == \E j \in DOMAIN o : o[j].host = h
PosOf(o, h) == IF HasObs(o, h) THEN o[CHOOSE j \in DOMAIN o : o[j].host = h].pos ELSE <<>>
\* the point the table holds for (marker m, host h); <<>> when there is none
Entry(t, m, h) == PosOf(ObsOf(t, m), h)
\* the entries of host h, per marker
Row(t, h) == [m \in Markers |-> Entry(t, m, h)]

\* a variant of lines 86-87 without the membership test: the marker's dict
\* is replaced by an empty one on every record
SetDefaultKeyReset(t, m) ==
    IF HasKey(t, m)
    THEN [i \in DOMAIN t |-> IF t[i].id = m THEN [id |-> m, obs |-> <<>>] ELSE t[i]]
    ELSE Append(t, [id |-> m, obs |-> <<>>])

\* lines 86-87: if marker_id not in live_marker_data: live_marker_data[marker_id] = {}
SetDefaultKey(t, m) == IF HasKey(t, m) THEN t ELSE Append(t, [id |-> m, obs |-> <<>>])

\* a variant of the dict assignment that keeps the older point as well
PutObsAppend(o, h, p) == Append(o, [host |-> h, pos |-> p])

\* dict assignment d[h] = p: in place for an existing key, appended otherwise
PutObs(o, h, p) ==
    IF HasObs(o, h)
    THEN [j \in DOMAIN o |-> IF o[j].host = h THEN [host |-> h, pos |-> p] ELSE o[j]]
    ELSE Append(o, [host |-> h, pos |-> p])

\* a variant of line 88 in which the first point reported for a marker by a
\* host stays: a later record does not replace it
StoreObsKeep(t, m, h, p) ==
    IF Entry(t, m, h) # <<>> THEN t
    ELSE [i \in DOMAIN t |-> IF t[i].id = m THEN [id |-> m, obs |-> PutObs(t[i].obs, h, p)] ELSE t[i]]

\* line 88: live_marker_data[marker_id][self.host] = tuple(marker['pos'])
StoreObs(t, m, h, p) ==
    [i \in DOMAIN t |-> IF t[i].id = m THEN [id |-> m, obs |-> PutObs(t[i].obs, h, p)] ELSE t[i]]

\* ------------------------------------------------------------------- Init
\* no camera node is looked at
NodeOff ==
    /\ impl = "none" /\ npc = "off"
    /\ inbox = <<>> /\ wire = <<>> /\ nodeSent = <<>>

\* the coordinator when its process starts
CoordInit ==
    /\ mpc = "connect" /\ mi = 1 /\ mcmd = "none"
    /\ server_clients = {}
    /\ triangulation_thread = NoThread
    /\ sock = [n \in Hosts |-> "None"]
    /\ is_connected = [n \in Hosts |-> FALSE]
    /\ state = [n \in Hosts |-> "Disconnected"]
    /\ lpc = [n \in Hosts |-> "none"]
    /\ parsed = [n \in Hosts |-> "none"]
    /\ idx = [n \in Hosts |-> 0]
    /\ live_marker_data = <<>>
    /\ data_lock = <<>>
    /\ tpc = [k \in 1..MaxTri |-> "unborn"]
    /\ ti = 0
    /\ camera_poses = [k \in 1..MaxTri |-> {}]
    /\ output_lines = <<>>
    /\ sent = [n \in Hosts |-> <<>>]
    /\ bret = <<"unset">>
    /\ closeCalls = [n \in Hosts |-> 0]
    /\ calls = [n \in Hosts |-> 0]
    /\ raced = [n \in Hosts |-> FALSE]
    /\ afterInvalid = [n \in Hosts |-> FALSE]
    /\ rowBefore = [n \in Hosts |-> NoRow]
    /\ written = [n \in Hosts |-> NoRow]
    /\ lastSeen = [n \in Hosts |-> NoRow]

Init == CoordInit /\ NodeOff

\* The process runs until the main thread returns or dies: every other
\* thread is a daemon thread.
ProcessRunning == mpc \notin {"done", "crashed", "connect_raised"}

\* ------------------------------------------------------ CameraClient parts
\* the listener of n is inside listen_for_data and holds f = sock.makefile()
ListenerHoldsFile(n) == lpc[n] \notin {"none", "done", "crashed"}

\* socket.close() marks the socket object closed; the descriptor is released
\* at once only if no makefile() object still refers to the socket.
CloseSock(n) ==
    IF sock[n] \in {"open", "closing"}
    THEN (IF ListenerHoldsFile(n) THEN "closing" ELSE "closed")
    ELSE IF sock[n] = "created" THEN "closed" ELSE sock[n]

\* a variant in which the file object outlives listen_for_data
FreeFileKept(s) == s

\* the listener's file object is dropped when listen_for_data ends
FreeFile(s) == IF s = "closing" THEN "closed" ELSE s

\* a variant of disconnect() without the test of line 106
DiscGuardAlways(n) == TRUE

\* line 106: if self.is_connected:
DiscGuard(n) == is_connected[n]

\* some thread is between the guard of disconnect() (line 106) and its return
DiscInProgress(n) ==
    \/ lpc[n] \in {"disc_107", "disc_108"}
    \/ (mpc \in {"m_disc_107", "m_disc_108"} /\ mi = n)

\* a call of disconnect() on n starts
DiscCalled(n) ==
    /\ calls' = [calls EXCEPT ![n] = @ + 1]
    /\ raced' = [raced EXCEPT ![n] = @ \/ DiscInProgress(n)]
    /\ UNCHANGED closeCalls

\* line 107: self.is_connected = False
Disc107(n) ==
    /\ is_connected' = [is_connected EXCEPT ![n] = FALSE]
    /\ UNCHANGED <<sock, state, discGhost>>

\* lines 108-111: self.state = "Disconnected"; if self.sock: self.sock.close()
Disc108(n) ==
    /\ state' = [state EXCEPT ![n] = "Disconnected"]
    /\ IF sock[n] # "None"
       THEN /\ sock' = [sock EXCEPT ![n] = CloseSock(n)]
            /\ closeCalls' = [closeCalls EXCEPT ![n] = @ + 1]
       ELSE UNCHANGED <<sock, closeCalls>>
    /\ UNCHANGED <<is_connected, calls, raced>>

\* ------------------------------------------------------------- main thread
\* server_clients is filled in the order of config.SERVER_HOSTS; a loop over
\* server_clients.values() visits the registered hosts in that order.
NextClient(i) ==
    IF \E n \in server_clients : n >= i
    THEN CHOOSE n \in server_clients : n >= i /\ \A o \in server_clients : o >= i => n <= o
    ELSE NumHosts + 1

\* The errors of sock.connect that connect() catches (line 54).
CaughtConnectErrors == {"ConnectionRefusedError", "gaierror", "timeout"}

\* What sock.connect (line 44) can do: succeed on a node that answers, or
\* raise; an OSError such as EHOSTUNREACH or ENETUNREACH is none of the
\* caught classes.
ConnectOutcomes(n) ==
    (IF n \in Answering THEN {"ok"} ELSE {}) \cup CaughtConnectErrors \cup {"OSError"}

\* main, lines 229-232 with CameraClient.__init__ and connect (lines 29-56):
\* a client is registered only if its connect() succeeded; an error that
\* connect() does not catch leaves connect() and main
Connect(n) ==
    /\ mpc = "connect" /\ mi = n
    /\ \E out \in ConnectOutcomes(n) :
        IF out = "ok"
        THEN /\ sock' = [sock EXCEPT ![n] = "open"]
             /\ is_connected' = [is_connected EXCEPT ![n] = TRUE]
             /\ state' = [state EXCEPT ![n] = "Connected"]
             /\ lpc' = [lpc EXCEPT ![n] = "loop"]
             /\ server_clients' = server_clients \cup {n}
             /\ mi' = n + 1 /\ UNCHANGED mpc
        ELSE /\ sock' = [sock EXCEPT ![n] = "created"]
             /\ UNCHANGED <<is_connected, state, lpc, server_clients>>
             /\ IF out \in CaughtConnectErrors
                THEN mi' = n + 1 /\ UNCHANGED mpc
                ELSE mpc' = "connect_raised" /\ UNCHANGED mi
    /\ UNCHANGED <<mcmd, triangulation_thread, parsed, idx,
                   tableVars, triVars, sendGhost, discGhost, lineGhost>>
    /\ UNCHANGED nodeVars

\* a variant of the startup that goes through the configured hosts again
\* while one of them is not connected
StartupRetry ==
    /\ mpc = "connect" /\ mi = NumHosts + 1
    /\ IF \E n \in Hosts : ~is_connected[n]
       THEN mi' = 1 /\ UNCHANGED mpc
       ELSE mpc' = "prompt" /\ UNCHANGED mi
    /\ UNCHANGED <<mcmd, server_clients, triangulation_thread, clientVars,
                   listenVars, tableVars, triVars, sendGhost, discGhost, lineGhost>>
    /\ UNCHANGED nodeVars

\* main, lines 234-238
StartupDone ==
    /\ mpc = "connect" /\ mi = NumHosts + 1
    /\ mpc' = IF server_clients = {} THEN "done" ELSE "prompt"
    /\ UNCHANGED <<mi, mcmd, server_clients, triangulation_thread, clientVars,
                   listenVars, tableVars, triVars, sendGhost, discGhost, lineGhost>>
    /\ UNCHANGED nodeVars

ThreadsStarted == Cardinality({k \in 1..MaxTri : tpc[k] # "unborn"})

\* main, lines 246-249 and 258-259: `stream` / `stop` call broadcast_command
CmdBroadcast(command) ==
    /\ mpc = "prompt"
    /\ command = "start_stream" => ThreadsStarted < MaxTri
    /\ mcmd' = command
    /\ mpc' = "bcast" /\ mi' = NextClient(1)
    /\ UNCHANGED <<server_clients, triangulation_thread, clientVars, listenVars,
                   tableVars, triVars, sendGhost, discGhost, lineGhost>>
    /\ UNCHANGED nodeVars

\* main, lines 263-264 and 272-273: `pnp` and unknown input only print
CmdOther ==
    /\ mpc = "prompt"
    /\ UNCHANGED vars

\* main, lines 268-269: `quit` starts the loop over the clients
CmdQuit ==
    /\ mpc = "prompt"
    /\ mcmd' = "quit"
    /\ mpc' = "quit" /\ mi' = NextClient(1)
    /\ UNCHANGED <<server_clients, triangulation_thread, clientVars, listenVars,
                   tableVars, triVars, sendGhost, discGhost, lineGhost>>
    /\ UNCHANGED nodeVars

\* send_command, line 95: if self.is_connected: ... else return False (line 102)
SendGuard(n) == is_connected[n]

SendCheck(n) ==
    /\ mpc = "bcast" /\ mi = n /\ n \in Hosts
    /\ IF SendGuard(n)
       THEN mpc' = "sendall" /\ mi' = mi
       ELSE mpc' = "bcast" /\ mi' = NextClient(n + 1)
    /\ UNCHANGED <<mcmd, server_clients, triangulation_thread, clientVars, listenVars,
                   tableVars, triVars, sendGhost, discGhost, lineGhost>>
    /\ UNCHANGED nodeVars

\* The errors of sock.sendall that send_command catches (line 99).
CaughtSendErrors == {"ConnectionResetError", "BrokenPipeError"}

\* What sock.sendall can do: on a released descriptor it raises
\* OSError(EBADF); otherwise the bytes are written or the peer has gone.
SendOutcomes(n) ==
    IF sock[n] = "closed" THEN {"OSError"}
    ELSE {"ok"} \cup CaughtSendErrors

\* send_command, lines 96-101
SendAll(n) ==
    /\ mpc = "sendall" /\ mi = n
    /\ \E out \in SendOutcomes(n) :
        IF out = "ok"
        THEN /\ sent' = [sent EXCEPT ![n] = Append(@, WireLine(mcmd))]
             /\ mpc' = "bcast" /\ mi' = NextClient(n + 1)
        ELSE IF out \in CaughtSendErrors
        THEN /\ mpc' = "m_disc_check"
             /\ UNCHANGED <<sent, mi>>
        ELSE /\ mpc' = "crashed"
             /\ UNCHANGED <<sent, mi>>
    /\ UNCHANGED <<mcmd, server_clients, triangulation_thread, clientVars, listenVars,
                   tableVars, triVars, bret, discGhost, lineGhost>>
    /\ UNCHANGED nodeVars

\* the number of sessions the running broadcast has written its line to
Reached == Cardinality({n \in Hosts : sent[n] # <<>>})

\* a variant of broadcast_command that counts the sends and returns the count
BroadcastResultCount(count) == <<count>>

\* broadcast_command has no return statement: its value is None
BroadcastResult(count) == None

\* broadcast_command, lines 117-118: the loop is exhausted, the call returns
BcastReturn ==
    /\ mpc = "bcast" /\ mi = NumHosts + 1
    /\ bret' = BroadcastResult(Reached)
    /\ mpc' = IF mcmd = "start_stream" THEN "thread_check" ELSE "print_stop"
    /\ UNCHANGED <<mi, mcmd, server_clients, triangulation_thread, clientVars,
                   listenVars, tableVars, triVars, sent, discGhost, lineGhost>>
    /\ UNCHANGED nodeVars

\* the history of a broadcast ends when main is back at the prompt
ForgetBroadcast ==
    /\ sent' = [n \in Hosts |-> <<>>]
    /\ bret' = <<"unset">>

\* a variant of the `stop` branch that also ends the triangulation thread
PrintStopEndsTask ==
    /\ mpc = "print_stop"
    /\ mpc' = "prompt"
    /\ ForgetBroadcast
    /\ tpc' = [k \in 1..MaxTri |->
                 IF tpc[k] \in {"unborn", "dead", "returned"} THEN tpc[k] ELSE "returned"]
    /\ UNCHANGED <<mi, mcmd, server_clients, triangulation_thread, clientVars,
                   listenVars, tableVars, ti, camera_poses, output_lines,
                   discGhost, lineGhost>>
    /\ UNCHANGED nodeVars

\* main, line 261: after `stop` only a message is printed
PrintStop ==
    /\ mpc = "print_stop"
    /\ mpc' = "prompt"
    /\ ForgetBroadcast
    /\ UNCHANGED <<mi, mcmd, server_clients, triangulation_thread, clientVars,
                   listenVars, tableVars, triVars, discGhost, lineGhost>>
    /\ UNCHANGED nodeVars

\* main, lines 269-271: the next client of the quit loop, or break
QuitNext ==
    /\ mpc = "quit"
    /\ IF mi \in Hosts THEN mpc' = "m_disc_check" ELSE mpc' = "done"
    /\ UNCHANGED <<mi, mcmd, server_clients, triangulation_thread, clientVars,
                   listenVars, tableVars, triVars, sendGhost, discGhost, lineGhost>>
    /\ UNCHANGED nodeVars

\* where main continues after disconnect() returns: send_command returns
\* False to broadcast_command (line 101), or the quit loop goes on
AfterMainDisc == IF mcmd = "quit" THEN "quit" ELSE "bcast"

\* disconnect() called by the main thread, line 106
MainDiscCheck ==
    /\ mpc = "m_disc_check"
    /\ DiscCalled(mi)
    /\ IF DiscGuard(mi)
       THEN mpc' = "m_disc_107" /\ mi' = mi
       ELSE mpc' = AfterMainDisc /\ mi' = NextClient(mi + 1)
    /\ UNCHANGED <<mcmd, server_clients, triangulation_thread, clientVars, listenVars,
                   tableVars, triVars, sendGhost, lineGhost>>
    /\ UNCHANGED nodeVars

MainDisc107 ==
    /\ mpc = "m_disc_107"
    /\ Disc107(mi)
    /\ mpc' = "m_disc_108"
    /\ UNCHANGED <<mi, mcmd, server_clients, triangulation_thread, listenVars,
                   tableVars, triVars, sendGhost, lineGhost>>
    /\ UNCHANGED nodeVars

MainDisc108 ==
    /\ mpc = "m_disc_108"
    /\ Disc108(mi)
    /\ mpc' = AfterMainDisc /\ mi' = NextClient(mi + 1)
    /\ UNCHANGED <<mcmd, server_clients, triangulation_thread, listenVars,
                   tableVars, triVars, sendGhost, lineGhost>>
    /\ UNCHANGED nodeVars

\* --------------------------------------------------------- listener thread
\* a variant of line 63 that loops for ever: while True:
LoopCondForever(n) == TRUE

\* listen_for_data, line 63, the loop condition: self.is_connected
LoopCond(n) == is_connected[n]

\* listen_for_data, line 63: while self.is_connected:
LoopCheck(n) ==
    /\ ProcessRunning /\ lpc[n] = "loop"
    /\ lpc' = [lpc EXCEPT ![n] = IF LoopCond(n) THEN "read" ELSE "break"]
    /\ UNCHANGED <<mainVars, clientVars, parsed, idx, tableVars, triVars,
                   sendGhost, discGhost, lineGhost>>
    /\ UNCHANGED nodeVars

\* The exceptions of f.readline() that listen_for_data catches (line 70,
\* IOError is OSError): a socket error such as ConnectionResetError, and
\* socket.timeout, which the timeout of 5 seconds that connect() sets on the
\* socket (line 43) and never lifts raises when nothing arrives for 5 seconds.
CaughtReadErrors == {"error", "timeout"}

\* What f.readline() followed by json.loads(line.strip()) can come to: the
\* empty string at end of stream, a caught exception, a line that is not
\* JSON (json.JSONDecodeError, caught at line 89), or a JSON value.
ReadOutcomes == {"eof", "invalid"} \cup CaughtReadErrors \cup JsonKinds

\* What f.readline() comes to on a healthy connection whose node sends nothing.
SilentOutcomes == {"timeout"}

\* a variant of _process_server_message without the except clause of line 89
OnJSONDecodeErrorRaise == "crashed"

\* lines 89-91: except json.JSONDecodeError: pass - the call returns and the
\* listener goes round its while loop
OnJSONDecodeError == "loop"

\* listen_for_data lines 65-72 and _process_server_message lines 80-81, 89-91,
\* with the read coming to one of outs; record tells whether the history of
\* lines that were not JSON is kept
ReadLineFrom(n, record, outs) ==
    /\ ProcessRunning /\ lpc[n] = "read"
    /\ \E out \in outs :
        IF out = "eof" \/ out \in CaughtReadErrors
        THEN /\ lpc' = [lpc EXCEPT ![n] = "disc_check"]
             /\ afterInvalid' = [afterInvalid EXCEPT ![n] = FALSE]
             /\ UNCHANGED parsed
        ELSE IF out = "invalid"
        THEN /\ lpc' = [lpc EXCEPT ![n] = OnJSONDecodeError]
             /\ afterInvalid' = [afterInvalid EXCEPT ![n] = record]
             /\ UNCHANGED parsed
        ELSE /\ lpc' = [lpc EXCEPT ![n] = "lockwait"]
             /\ parsed' = [parsed EXCEPT ![n] = LoopOver(out)]
             /\ UNCHANGED afterInvalid
    /\ UNCHANGED <<mainVars, clientVars, idx, tableVars, triVars,
                   sendGhost, discGhost, rowBefore, written, lastSeen>>
    /\ UNCHANGED nodeVars

\* the read of a listener whose node may do anything
ReadLine(n, record) == ReadLineFrom(n, record, ReadOutcomes)

\* _process_server_message, line 82: with data_lock:
AcquireUpdate(n) ==
    /\ ProcessRunning /\ lpc[n] = "lockwait"
    /\ data_lock = <<>>
    /\ data_lock' = <<"listener", n>>
    /\ lpc' = [lpc EXCEPT ![n] = "apply"]
    /\ idx' = [idx EXCEPT ![n] = 1]
    /\ rowBefore' = [rowBefore EXCEPT ![n] = Row(live_marker_data, n)]
    /\ UNCHANGED <<mainVars, clientVars, parsed, live_marker_data, triVars,
                   sendGhost, discGhost, afterInvalid, written, lastSeen>>
    /\ UNCHANGED nodeVars

\* a variant with data_lock.acquire() and data_lock.release() in place of
\* the with statement of line 82: an exception skips the release
ListenerDiesHolding(n) ==
    /\ lpc' = [lpc EXCEPT ![n] = "crashed"]
    /\ sock' = [sock EXCEPT ![n] = FreeFile(@)]
    /\ parsed' = [parsed EXCEPT ![n] = "none"]
    /\ afterInvalid' = [afterInvalid EXCEPT ![n] = FALSE]
    /\ rowBefore' = [rowBefore EXCEPT ![n] = NoRow]
    /\ written' = [written EXCEPT ![n] = NoRow]
    /\ UNCHANGED <<data_lock, idx, is_connected, state, lastSeen>>

\* An exception other than json.JSONDecodeError leaves the with block (the
\* lock is released), _process_server_message and, not being an IOError,
\* listen_for_data: the listener thread ends with a traceback and its file
\* object is dropped. idx keeps the position of the record that raised.
ListenerDies(n) ==
    /\ data_lock' = <<>>
    /\ lpc' = [lpc EXCEPT ![n] = "crashed"]
    /\ sock' = [sock EXCEPT ![n] = FreeFile(@)]
    /\ parsed' = [parsed EXCEPT ![n] = "none"]
    /\ afterInvalid' = [afterInvalid EXCEPT ![n] = FALSE]
    /\ rowBefore' = [rowBefore EXCEPT ![n] = NoRow]
    /\ written' = [written EXCEPT ![n] = NoRow]
    /\ UNCHANGED <<idx, is_connected, state, lastSeen>>

\* lines 85-88 for one record e of host h: the table afterwards and whether
\* the record raised KeyError ('id' missing: before any write; 'pos'
\* missing: after lines 86-87 have inserted the marker key)
ApplyRecord(t, h, e) ==
    IF e.id = 0 THEN [table |-> t, raised |-> TRUE]
    ELSE IF e.pos = <<>> THEN [table |-> SetDefaultKey(t, e.id), raised |-> TRUE]
    ELSE [table |-> StoreObs(SetDefaultKey(t, e.id), e.id, h, e.pos), raised |-> FALSE]

\* _process_server_message, lines 84-88: one turn of the for loop over a
\* received array; e is the record the loop reads next
UpdateRecord(n, e) ==
    /\ ProcessRunning /\ lpc[n] = "apply"
    /\ data_lock = <<"listener", n>>
    /\ parsed[n] = "records" /\ idx[n] <= MaxRecs
    /\ LET r == ApplyRecord(live_marker_data, n, e) IN
        /\ live_marker_data' = r.table
        /\ IF r.raised
           THEN ListenerDies(n)
           ELSE /\ idx' = [idx EXCEPT ![n] = @ + 1]
                /\ written' = [written EXCEPT ![n][e.id] = e.pos]
                /\ lastSeen' = [lastSeen EXCEPT ![n][e.id] = e.pos]
                /\ UNCHANGED <<data_lock, lpc, parsed, clientVars, afterInvalid, rowBefore>>
    /\ UNCHANGED <<mainVars, triVars, sendGhost, discGhost>>
    /\ UNCHANGED nodeVars

\* _process_server_message, lines 84-85 on a value that is no array
IterateValue(n) ==
    /\ ProcessRunning /\ lpc[n] = "apply"
    /\ data_lock = <<"listener", n>>
    /\ parsed[n] = "TypeError"
    /\ ListenerDies(n)
    /\ UNCHANGED <<mainVars, live_marker_data, triVars, sendGhost, discGhost>>
    /\ UNCHANGED nodeVars

\* the loop is exhausted: the with block ends, the lock is released and
\* _process_server_message returns to the while loop of listen_for_data
EndUpdate(n) ==
    /\ ProcessRunning /\ lpc[n] = "apply"
    /\ data_lock = <<"listener", n>>
    /\ parsed[n] \in {"records", "nothing"}
    /\ data_lock' = <<>>
    /\ lpc' = [lpc EXCEPT ![n] = "loop"]
    /\ parsed' = [parsed EXCEPT ![n] = "none"]
    /\ idx' = [idx EXCEPT ![n] = 0]
    /\ afterInvalid' = [afterInvalid EXCEPT ![n] = FALSE]
    /\ rowBefore' = [rowBefore EXCEPT ![n] = NoRow]
    /\ written' = [written EXCEPT ![n] = NoRow]
    /\ UNCHANGED <<mainVars, clientVars, live_marker_data, triVars, sendGhost, discGhost,
                   lastSeen>>
    /\ UNCHANGED nodeVars

\* disconnect() called by the listener (lines 67 and 71), line 106
ListenerDiscCheck(n) ==
    /\ ProcessRunning /\ lpc[n] = "disc_check"
    /\ DiscCalled(n)
    /\ lpc' = [lpc EXCEPT ![n] = IF DiscGuard(n) THEN "disc_107" ELSE "break"]
    /\ UNCHANGED <<mainVars, clientVars, parsed, idx, tableVars, triVars,
                   sendGhost, lineGhost>>
    /\ UNCHANGED nodeVars

ListenerDisc107(n) ==
    /\ ProcessRunning /\ lpc[n] = "disc_107"
    /\ Disc107(n)
    /\ lpc' = [lpc EXCEPT ![n] = "disc_108"]
    /\ UNCHANGED <<mainVars, parsed, idx, tableVars, triVars, sendGhost, lineGhost>>
    /\ UNCHANGED nodeVars

ListenerDisc108(n) ==
    /\ ProcessRunning /\ lpc[n] = "disc_108"
    /\ Disc108(n)
    /\ lpc' = [lpc EXCEPT ![n] = "break"]
    /\ UNCHANGED <<mainVars, parsed, idx, tableVars, triVars, sendGhost, lineGhost>>
    /\ UNCHANGED nodeVars

\* lines 68 and 72 (break) or a false loop condition: listen_for_data
\* returns and its file object f is dropped
ListenerReturn(n) ==
    /\ ProcessRunning /\ lpc[n] = "break"
    /\ lpc' = [lpc EXCEPT ![n] = "done"]
    /\ sock' = [sock EXCEPT ![n] = FreeFile(@)]
    /\ UNCHANGED <<mainVars, is_connected, state, parsed, idx, tableVars, triVars,
                   sendGhost, discGhost, lineGhost>>
    /\ UNCHANGED nodeVars

\* ---------------------------------------------------- triangulation thread
\* threading.Thread.is_alive(): started and run() not yet ended
IsAlive(k) == tpc[k] \in {"load", "sleep", "locked", "cycle"}

\* a variant of line 251 that starts a thread on every `stream`
NeedsThreadAlways == TRUE

\* main, line 251: triangulation_thread is None or not triangulation_thread.is_alive()
NeedsThread == triangulation_thread = NoThread \/ ~IsAlive(triangulation_thread)

\* main, lines 251-256
ThreadCheck ==
    /\ mpc = "thread_check"
    /\ IF NeedsThread
       THEN LET k == ThreadsStarted + 1 IN
            /\ tpc' = [tpc EXCEPT ![k] = "load"]
            /\ triangulation_thread' = k
       ELSE UNCHANGED <<tpc, triangulation_thread>>
    /\ mpc' = "prompt"
    /\ ForgetBroadcast
    /\ UNCHANGED <<mi, mcmd, server_clients, clientVars, listenVars, tableVars,
                   ti, camera_poses, output_lines, discGhost, lineGhost>>
    /\ UNCHANGED nodeVars

\* a variant of triangulation_thread_func without the returns of lines 180 and 200
CanTriangulateAlways(intrinsic, poses) == TRUE

\* lines 173-180 and 198-200: the function goes on to its loop only with the
\* intrinsic file read and at least two poses loaded
CanTriangulate(intrinsic, poses) == intrinsic /\ Cardinality(poses) >= 2

\* triangulation_thread_func, lines 173-200: the intrinsic file and the pose
\* files found on disk are inputs; the thread returns when the intrinsic
\* file is missing or fewer than two poses were loaded
TriLoad(k, poses) ==
    /\ ProcessRunning /\ tpc[k] = "load"
    /\ \E intrinsic \in BOOLEAN :
        IF CanTriangulate(intrinsic, poses)
        THEN /\ tpc' = [tpc EXCEPT ![k] = "sleep"]
             /\ camera_poses' = [camera_poses EXCEPT ![k] = poses]
        ELSE /\ tpc' = [tpc EXCEPT ![k] = "returned"]
             /\ UNCHANGED camera_poses
    /\ UNCHANGED <<mainVars, clientVars, listenVars, tableVars, ti, output_lines,
                   sendGhost, discGhost, lineGhost>>
    /\ UNCHANGED nodeVars

\* lines 203-204: time.sleep(0.1); with data_lock:
TriAcquire(k) ==
    /\ ProcessRunning /\ tpc[k] = "sleep"
    /\ data_lock = <<>>
    /\ data_lock' = <<"triangulation", k>>
    /\ tpc' = [tpc EXCEPT ![k] = "locked"]
    /\ UNCHANGED <<mainVars, clientVars, listenVars, live_marker_data, ti, camera_poses,
                   output_lines, sendGhost, discGhost, lineGhost>>
    /\ UNCHANGED nodeVars

\* lines 205-208: an empty table ends the cycle (continue leaves the with
\* block); otherwise output_lines = [] and the loop over the table starts
TriCheck(k) ==
    /\ ProcessRunning /\ tpc[k] = "locked"
    /\ IF live_marker_data = <<>>
       THEN /\ tpc' = [tpc EXCEPT ![k] = "sleep"]
            /\ data_lock' = <<>>
            /\ UNCHANGED <<ti, output_lines>>
       ELSE /\ tpc' = [tpc EXCEPT ![k] = "cycle"]
            /\ ti' = 1 /\ output_lines' = <<>>
            /\ UNCHANGED data_lock
    /\ UNCHANGED <<mainVars, clientVars, listenVars, live_marker_data, camera_poses,
                   sendGhost, discGhost, lineGhost>>
    /\ UNCHANGED nodeVars

\* triangulate_marker_position, lines 136-150: the observations of hosts
\* that have a pose, in the order of the observations dict
Usable(observations, poses) == SelectSeq(observations, LAMBDA o : o.host \in poses)

\* a variant of triangulate_marker_position with cv2 at hand and without the
\* test of line 137: the first two views give a point, pose or no pose
TriangulateFirstTwo(observations, poses) ==
    IF Len(observations) < 2 THEN "None" ELSE "point"

\* a variant of triangulate_marker_position with cv2 at hand and without the
\* thresholds of lines 130 and 152: any usable view gives a point
TriangulateAnyView(observations, poses) ==
    IF Usable(observations, poses) = <<>> THEN "None" ELSE "point"

\* triangulate_marker_position, lines 130-165. client.py imports socket,
\* json, threading, time, numpy and config (lines 12-17) and not cv2: the
\* first observation of a host with a pose reaches cv2.Rodrigues (line 145),
\* which raises NameError, so the function returns None or raises.
TriangulateMarker(observations, poses) ==
    IF Len(observations) < 2 THEN "None"
    ELSE IF Usable(observations, poses) # <<>> THEN "NameError"
    ELSE "None"

\* The thread ends: an exception leaves the with block, which releases the lock.
TriDies(k) ==
    /\ tpc' = [tpc EXCEPT ![k] = "dead"]
    /\ data_lock' = <<>>
    /\ ti' = 0 /\ output_lines' = <<>>
    /\ camera_poses' = [camera_poses EXCEPT ![k] = {}]

\* lines 209-213: one turn of the loop over live_marker_data.items()
TriMarker(k) ==
    /\ ProcessRunning /\ tpc[k] = "cycle"
    /\ ti <= Len(live_marker_data)
    /\ LET pos_3d == TriangulateMarker(live_marker_data[ti].obs, camera_poses[k]) IN
        IF pos_3d = "NameError"
        THEN TriDies(k)
        ELSE /\ output_lines' = IF pos_3d = "None" THEN output_lines
                                ELSE Append(output_lines, live_marker_data[ti].id)
             /\ ti' = ti + 1
             /\ UNCHANGED <<tpc, data_lock, camera_poses>>
    /\ UNCHANGED <<mainVars, clientVars, listenVars, live_marker_data,
                   sendGhost, discGhost, lineGhost>>
    /\ UNCHANGED nodeVars

\* a variant of line 216 with os imported: the screen is cleared and the
\* lines 217-222 are printed, all inside the with block of line 204
TriDisplayPrints(k) ==
    /\ ProcessRunning /\ tpc[k] = "cycle"
    /\ ti > Len(live_marker_data)
    /\ tpc' = [tpc EXCEPT ![k] = "print"]
    /\ UNCHANGED <<mainVars, clientVars, listenVars, tableVars, ti, camera_poses,
                   output_lines, sendGhost, discGhost, lineGhost>>
    /\ UNCHANGED nodeVars

\* line 216: os.system(...) - client.py does not import os either: NameError
TriDisplay(k) ==
    /\ ProcessRunning /\ tpc[k] = "cycle"
    /\ ti > Len(live_marker_data)
    /\ TriDies(k)
    /\ UNCHANGED <<mainVars, clientVars, listenVars, live_marker_data,
                   sendGhost, discGhost, lineGhost>>
    /\ UNCHANGED nodeVars

\* ----------------------------------------------------------- specifications
MainStep ==
    \/ \E n \in Hosts : Connect(n)
    \/ StartupDone
    \/ \E c \in {"start_stream", "stop_stream"} : CmdBroadcast(c)
    \/ CmdOther
    \/ CmdQuit
    \/ \E n \in Hosts : SendCheck(n)
    \/ \E n \in Hosts : SendAll(n)
    \/ BcastReturn
    \/ PrintStop
    \/ ThreadCheck
    \/ QuitNext
    \/ MainDiscCheck
    \/ MainDisc107
    \/ MainDisc108

\* a listener, receiving arrays whose records are drawn from E
ListenerStep(n, E, record) ==
    \/ LoopCheck(n)
    \/ ReadLine(n, record)
    \/ AcquireUpdate(n)
    \/ \E e \in E : UpdateRecord(n, e)
    \/ IterateValue(n)
    \/ EndUpdate(n)
    \/ ListenerDiscCheck(n)
    \/ ListenerDisc107(n)
    \/ ListenerDisc108(n)
    \/ ListenerReturn(n)

\* a triangulation thread, finding on disk the pose files of one of PoseSets
TriStep(k, PoseSets) ==
    \/ \E poses \in PoseSets : TriLoad(k, poses)
    \/ TriAcquire(k)
    \/ TriCheck(k)
    \/ TriMarker(k)
    \/ TriDisplay(k)

\* The whole coordinator, from process start; the data lines are about the
\* first marker and the first point, and the pose files are all there or
\* all missing.
Next ==
    \/ MainStep
    \/ \E n \in Hosts : ListenerStep(n, FewElements, FALSE)
    \/ \E k \in 1..MaxTri : TriStep(k, {{}, Hosts})

Spec == Init /\ [][Next]_vars

\* The state in which main waits at the prompt with the answering nodes
\* connected, after the command cmd, the variable triangulation_thread
\* holding thread (NoThread before the first `stream`).
AtPrompt(cmd, thread) ==
    /\ mpc = "prompt" /\ mi = NumHosts + 1 /\ mcmd = cmd
    /\ server_clients = Answering
    /\ triangulation_thread = thread
    /\ sock = [n \in Hosts |-> IF n \in server_clients THEN "open" ELSE "created"]
    /\ is_connected = [n \in Hosts |-> n \in server_clients]
    /\ state = [n \in Hosts |-> IF n \in server_clients THEN "Connected" ELSE "Disconnected"]
    /\ lpc = [n \in Hosts |-> IF n \in server_clients THEN "loop" ELSE "none"]
    /\ parsed = [n \in Hosts |-> "none"]
    /\ idx = [n \in Hosts |-> 0]
    /\ live_marker_data = <<>>
    /\ data_lock = <<>>
    /\ tpc = [k \in 1..MaxTri |-> IF k = thread THEN "load" ELSE "unborn"]
    /\ ti = 0
    /\ camera_poses = [k \in 1..MaxTri |-> {}]
    /\ output_lines = <<>>
    /\ sent = [n \in Hosts |-> <<>>]
    /\ bret = <<"unset">>
    /\ closeCalls = [n \in Hosts |-> 0]
    /\ calls = [n \in Hosts |-> 0]
    /\ raced = [n \in Hosts |-> FALSE]
    /\ afterInvalid = [n \in Hosts |-> FALSE]
    /\ rowBefore = [n \in Hosts |-> NoRow]
    /\ written = [n \in Hosts |-> NoRow]
    /\ lastSeen = [n \in Hosts |-> NoRow]

\* The data path: main waits at the prompt after a first `stream` (the
\* triangulation thread started); from there the listeners and the
\* triangulation thread run, with data lines about every marker and point and
\* the pose files of no node, of the first two, or of all, while the operator
\* types nothing.
InitData == AtPrompt("start_stream", 1) /\ NodeOff

NextData ==
    \/ \E n \in Hosts : ListenerStep(n, Elements, FALSE)
    \/ TriStep(1, {{}, {1, 2}, Hosts})

SpecData == InitData /\ [][NextData]_vars

\* The line path: main waits at its first prompt (the nodes stream as soon
\* as they are connected, no triangulation thread exists yet); the listeners
\* run, with data lines about every marker and point, and the history of the
\* lines that were not JSON is kept.
InitLines == AtPrompt("none", NoThread) /\ NodeOff

NextLines == \E n \in Hosts : ListenerStep(n, Elements, TRUE)

SpecLines == InitLines /\ [][NextLines]_vars

\* The dicts a marker key can hold once the nodes have reported the marker:
\* every host at most once, in the order of the hosts' first reports.
ObsDicts ==
    {o \in UNION {[1..k -> [host : Hosts, pos : PosValues]] : k \in 1..NumHosts} :
        \A a, b \in DOMAIN o : o[a].host = o[b].host => a = b}

\* The triangulation on its own: every configured node is connected and has
\* gone silent after its reports of the first marker, main waits at the
\* prompt after a first `stream`, and the triangulation thread runs with the
\* pose files of any set of nodes.
InitViews ==
    /\ mpc = "prompt" /\ mi = NumHosts + 1 /\ mcmd = "start_stream"
    /\ server_clients = Hosts
    /\ triangulation_thread = 1
    /\ sock = [n \in Hosts |-> "open"]
    /\ is_connected = [n \in Hosts |-> TRUE]
    /\ state = [n \in Hosts |-> "Connected"]
    /\ lpc = [n \in Hosts |-> "read"]
    /\ parsed = [n \in Hosts |-> "none"]
    /\ idx = [n \in Hosts |-> 0]
    /\ \E o \in ObsDicts : live_marker_data = <<[id |-> 1, obs |-> o]>>
    /\ data_lock = <<>>
    /\ tpc = [k \in 1..MaxTri |-> IF k = 1 THEN "load" ELSE "unborn"]
    /\ ti = 0
    /\ camera_poses = [k \in 1..MaxTri |-> {}]
    /\ output_lines = <<>>
    /\ sent = [n \in Hosts |-> <<>>]
    /\ bret = <<"unset">>
    /\ closeCalls = [n \in Hosts |-> 0]
    /\ calls = [n \in Hosts |-> 0]
    /\ raced = [n \in Hosts |-> FALSE]
    /\ afterInvalid = [n \in Hosts |-> FALSE]
    /\ rowBefore = [n \in Hosts |-> NoRow]
    /\ written = [n \in Hosts |-> NoRow]
    /\ lastSeen = [n \in Hosts |-> Row(live_marker_data, n)]
    /\ NodeOff

NextViews == TriStep(1, SUBSET Hosts)

SpecViews == InitViews /\ [][NextViews]_vars

\* The sessions at the end of a run: main waits at its first prompt, the
\* operator types `quit`, the listeners run with data lines whose records
\* are well formed; no triangulation thread exists.
NextSessions ==
    \/ CmdQuit
    \/ QuitNext
    \/ MainDiscCheck
    \/ MainDisc107
    \/ MainDisc108
    \/ \E n \in Hosts : ListenerStep(n, GoodElements, FALSE)

\* Scheduling: a thread that can run its next statement is given the
\* processor in the end; readline returns within the 5 seconds of
\* settimeout (line 43) even from a silent node; a thread blocked on
\* data_lock gets the lock in the end when it is released again and again.
FairSessions ==
    /\ WF_vars(MainDisc107 \/ MainDisc108)
    /\ \A n \in Hosts :
          /\ WF_vars(ListenerStep(n, GoodElements, FALSE))
          /\ SF_vars(AcquireUpdate(n))

SpecSessions == InitLines /\ [][NextSessions]_vars /\ FairSessions

\* a listener whose node is healthy and sends nothing
SilentListenerStep(n) ==
    \/ LoopCheck(n)
    \/ ReadLineFrom(n, FALSE, SilentOutcomes)
    \/ ListenerDiscCheck(n)
    \/ ListenerDisc107(n)
    \/ ListenerDisc108(n)
    \/ ListenerReturn(n)

\* Silent nodes: main waits at its first prompt with the answering nodes
\* connected, every connection is healthy and no node sends a line; the
\* operator types nothing or `quit`.
NextSilent ==
    \/ CmdQuit
    \/ QuitNext
    \/ MainDiscCheck
    \/ MainDisc107
    \/ MainDisc108
    \/ \E n \in Hosts : SilentListenerStep(n)

SpecSilent == InitLines /\ [][NextSilent]_vars

\* The lock: main waits at the prompt after a first `stream`; the listeners
\* run with data lines about the first marker and the first point, the
\* triangulation thread with the pose files of no node or of all.
NextLock ==
    \/ \E n \in Hosts : ListenerStep(n, FewElements, FALSE)
    \/ TriStep(1, {{}, Hosts})

\* Scheduling: a thread that can run its next statement is given the
\* processor in the end; readline returns within the 5 seconds of
\* settimeout (line 43); a thread blocked on data_lock gets the lock in the
\* end when it is released again and again.
FairLock ==
    /\ WF_vars(TriStep(1, {{}, Hosts}))
    /\ \A n \in Hosts :
          /\ WF_vars(ListenerStep(n, FewElements, FALSE))
          /\ SF_vars(AcquireUpdate(n))

SpecLock == InitData /\ [][NextLock]_vars /\ FairLock

\* ------------------------------------------------------------- a camera node
\* The two node programs of the repository.
NodePrograms == {"server.py", "server/server.py"}
NodeCommands == {"start_stream", "stop_stream"}

\* characters on the connection; the text json.dumps gives for the markers
\* of one frame is one unit (it holds no newline)
Chr(c) == [ch |-> c, ids |-> {}]
ArrayText(seen) == [ch |-> "array", ids |-> seen]

\* What the node appends to json.dumps(frame_positions): server.py line 116
\* writes '\n', a newline; server/server.py line 118 writes '\\n', a
\* backslash and the letter n.
Terminator(program) ==
    IF program = "server.py" THEN <<Chr("LF")>> ELSE <<Chr("backslash"), Chr("n")>>

\* server.py lines 152-155, 68-69; server/server.py lines 168-170, 128-131:
\* a connection is accepted and its handler starts
NodeAccept ==
    /\ npc = "accept"
    /\ npc' = "stream"
    /\ inbox' = <<>> /\ wire' = <<>> /\ nodeSent' = <<>>
    /\ UNCHANGED impl
    /\ UNCHANGED coordVars

\* client.py line 97: the coordinator's command line reaches the node's socket
CommandArrives(c) ==
    /\ npc = "stream" /\ Len(inbox) < MaxCmds
    /\ inbox' = Append(inbox, c)
    /\ UNCHANGED <<impl, npc, wire, nodeSent>>
    /\ UNCHANGED coordVars

\* the last command delivered to the connection
LastCommand == IF inbox = <<>> THEN "none" ELSE inbox[Len(inbox)]

\* server.py lines 87-117, server/server.py lines 89-119: one turn of the
\* streaming loop with the markers seen in the frame; neither program reads
\* from the connection, and server.py sets is_streaming on its first turn
NodeFrame(seen) ==
    /\ npc = "stream"
    /\ IF seen = {}
       THEN UNCHANGED <<wire, nodeSent>>
       ELSE /\ Len(nodeSent) < MaxMsgs
            /\ wire' = wire \o <<ArrayText(seen)>> \o Terminator(impl)
            /\ nodeSent' = Append(nodeSent, [array |-> seen, after |-> LastCommand])
    /\ UNCHANGED <<impl, npc, inbox>>
    /\ UNCHANGED coordVars

\* server.py lines 119-124, server/server.py lines 120-122 and 134-139:
\* sendall raises because the coordinator has gone; the handler ends and the
\* node accepts again
NodeSendFails ==
    /\ npc = "stream"
    /\ npc' = "accept"
    /\ UNCHANGED <<impl, inbox, wire, nodeSent>>
    /\ UNCHANGED coordVars

\* client.py line 65, f.readline() over the characters received so far: the
\* lines that are complete, each without its newline
RECURSIVE ReadLines(_)
ReadLines(w) ==
    IF \E i \in DOMAIN w : w[i].ch = "LF"
    THEN LET i == CHOOSE j \in DOMAIN w :
                      w[j].ch = "LF" /\ \A h \in 1..(j - 1) : w[h].ch # "LF"
         IN <<SubSeq(w, 1, i - 1)>> \o ReadLines(SubSeq(w, i + 1, Len(w)))
    ELSE <<>>

\* client.py lines 69 and 80, json.loads(line.strip()): the array, or no value
JsonLoads(line) ==
    IF Len(line) = 1 /\ line[1].ch = "array"
    THEN [ok |-> TRUE, ids |-> line[1].ids]
    ELSE [ok |-> FALSE, ids |-> {}]

\* what the coordinator's listener gets from the characters w, line by line
Received(w) == [i \in DOMAIN ReadLines(w) |-> JsonLoads(ReadLines(w)[i])]

\* A camera node on its own: either program, from its accept, with the
\* coordinator's commands arriving at any time.
InitNode ==
    /\ CoordInit
    /\ impl \in NodePrograms /\ npc = "accept"
    /\ inbox = <<>> /\ wire = <<>> /\ nodeSent = <<>>

NextNode ==
    \/ NodeAccept
    \/ \E c \in NodeCommands : CommandArrives(c)
    \/ \E seen \in SUBSET Markers : NodeFrame(seen)
    \/ NodeSendFails

SpecNode == InitNode /\ [][NextNode]_vars

\* --------------------------------------------------------------- properties
\* a line of host n is applied in part: some of its records are in the
\* table and the loop over it has not come to its end (it is still running,
\* or an exception ended it)
PartlyApplied(n) == idx[n] > 1 /\ lpc[n] \in {"apply", "crashed"}

\* C1: whenever a triangulation thread holds the lock and reads the table,
\* no received line is applied in part: of every line the reader sees all
\* the writes or none.
C1_ReaderSeesWholeLines ==
    \A k \in 1..MaxTri : tpc[k] \in {"locked", "cycle"} =>
        \A n \in Hosts : ~PartlyApplied(n)

\* the entries of host n that the array being applied leaves behind: the
\* entries it had, with the array's last point for every marker it names
RowAfter(n) ==
    [m \in Markers |-> IF written[n][m] # <<>> THEN written[n][m] ELSE rowBefore[n][m]]

\* the step in which the listener of n finds that its line is not JSON
\* changes neither the table nor the lock nor any session
C2_InvalidLineStep ==
    \A n \in Hosts : (lpc[n] = "read" /\ lpc'[n] # "read" /\ parsed'[n] = parsed[n]
                      /\ lpc'[n] # "disc_check") =>
        /\ live_marker_data' = live_marker_data
        /\ data_lock' = data_lock
        /\ is_connected' = is_connected /\ state' = state /\ sock' = sock
        /\ lpc'[n] = "loop"

\* from a line that was not JSON until the next line has been processed the
\* session is Connected and its listener runs, and while the next line is
\* applied the host's entries are those the line's records give
C2_AfterInvalidLine ==
    \A n \in Hosts : afterInvalid[n] =>
        /\ is_connected[n] /\ state[n] = "Connected"
        /\ lpc[n] \in {"loop", "read", "lockwait", "apply"}
        /\ lpc[n] = "apply" => Row(live_marker_data, n) = RowAfter(n)

\* C2: a line that is not valid JSON changes nothing and leaves the listener
\* running and the session Connected, and the well-formed line after it is
\* applied exactly.
C2_InvalidThenWellFormed == [][C2_InvalidLineStep]_vars /\ []C2_AfterInvalidLine

\* a well-formed line with two records is applied after a line that was not JSON
C2_Witness ==
    \E n \in Hosts : /\ afterInvalid[n] /\ lpc[n] = "apply" /\ idx[n] > 2
                     /\ \E m \in Markers : Entry(live_marker_data, m, n) # <<>>

\* C3: no line that is JSON of the wrong shape ends a listener: the listener
\* goes on to later lines with its session Connected, and the line leaves
\* no marker entry behind.
C3_WrongShapeDiscarded ==
    \A n \in Hosts :
        /\ lpc[n] # "crashed"
        /\ \A i \in DOMAIN live_marker_data : live_marker_data[i].obs # <<>>

\* C4: when the calls of disconnect() on a session never overlapped, its
\* socket was closed at most once, and once a second call has returned the
\* socket was closed exactly once and the session is Disconnected.
C4_SecondDisconnectNoOp ==
    \A n \in Hosts : ~raced[n] =>
        /\ closeCalls[n] <= 1
        /\ (calls[n] >= 2 /\ ~DiscInProgress(n)) =>
              /\ closeCalls[n] = 1
              /\ state[n] = "Disconnected" /\ ~is_connected[n]
              /\ sock[n] \in {"closing", "closed"}

\* a second disconnect() has returned after a first one had completed
C4_Witness ==
    \E n \in Hosts : calls[n] >= 2 /\ ~raced[n] /\ ~DiscInProgress(n) /\ closeCalls[n] = 1

\* a point of host b for marker m stays in the table in every step, and it
\* changes only when the listener of b applies a record for m
C5_EntryStep ==
    \A m \in Markers, b \in Hosts :
        (live_marker_data' # live_marker_data /\ Entry(live_marker_data, m, b) # <<>>) =>
            /\ Entry(live_marker_data', m, b) # <<>>
            /\ Entry(live_marker_data', m, b) # Entry(live_marker_data, m, b) =>
                  /\ lpc[b] = "apply" /\ data_lock = <<"listener", b>>
                  /\ written'[b][m] = Entry(live_marker_data', m, b)

\* C5: no operation removes or empties a table entry, and the point of node
\* B for marker M stays B's last reported one through the updates of other
\* nodes and the updates of B without M.
C5_EntryKept == [][C5_EntryStep]_vars

\* B applies an array without marker m while the table holds B's point for
\* m and another node's different point for m
C5_Witness ==
    \E m \in Markers, a \in Hosts, b \in Hosts :
        /\ a # b
        /\ Entry(live_marker_data, m, b) # <<>>
        /\ Entry(live_marker_data, m, a) # <<>>
        /\ Entry(live_marker_data, m, a) # Entry(live_marker_data, m, b)
        /\ lpc[b] = "apply" /\ written[b][m] = <<>>
        /\ \E m2 \in Markers : written[b][m2] # <<>>

BroadcastReturned == mpc \in {"thread_check", "print_stop"}

\* C7: broadcast_command does not fail, and when it has returned every
\* registered session that is Connected was sent the command line exactly
\* once and no session more than once.
C7_BroadcastReachesConnected ==
    /\ mpc # "crashed"
    /\ BroadcastReturned =>
          \A n \in Hosts :
              IF n \in server_clients /\ is_connected[n]
              THEN sent[n] = <<WireLine(mcmd)>>
              ELSE Len(sent[n]) <= 1

C9_SendNeverRaises ==
    \A n \in Hosts : ~(mi = n /\ mpc = "crashed" /\ mcmd \in {"start_stream", "stop_stream"})

AliveThreads == {k \in 1..MaxTri : IsAlive(k)}

\* the step of main after the broadcast of start_stream starts no thread
\* when one is alive and exactly one when none is
C10_StreamStep ==
    (mpc = "thread_check" /\ mpc' # "thread_check") =>
        IF AliveThreads # {}
        THEN tpc' = tpc /\ triangulation_thread' = triangulation_thread
        ELSE Cardinality(AliveThreads') = 1

\* C10: at most one triangulation thread is alive, and `stream` starts one
\* exactly when none is.
C10_OneTriangulationThread ==
    [](Cardinality(AliveThreads) <= 1) /\ [][C10_StreamStep]_vars

\* a second `stream` found the first thread ended and started a second one
C10_Witness ==
    /\ MaxTri >= 2 /\ tpc[1] = "dead" /\ IsAlive(2)
    /\ triangulation_thread = 2 /\ mpc = "prompt"

\* a step of the main thread while it carries out `stop` changes no
\* triangulation thread
C11_StopStep ==
    (mcmd' = "stop_stream" /\ <<mpc, mi, mcmd>>' # <<mpc, mi, mcmd>>) =>
        tpc' = tpc /\ triangulation_thread' = triangulation_thread

C12_QuitClosesEverySession ==
    (mpc = "done" /\ mcmd = "quit") =>
        \A n \in server_clients :
            /\ ~is_connected[n] /\ state[n] = "Disconnected"
            /\ sock[n] \in {"closing", "closed"}

\* C13: every data message of a camera node was sent while the last command
\* delivered on its connection was start_stream.
C13_DataOnlyWhileStreaming ==
    \A i \in DOMAIN nodeSent : nodeSent[i].after = "start_stream"

\* C14: what the coordinator's line reader gets from the characters a node
\* has sent is, message for message, the JSON array the node sent.
C14_OneArrayPerMessage ==
    Received(wire) = [i \in DOMAIN nodeSent |-> [ok |-> TRUE, ids |-> nodeSent[i].array]]

\* the turn of a cycle's loop for a marker with two usable views leaves the
\* triangulation thread in its cycle
C15_TwoViewStep ==
    \A k \in 1..MaxTri :
        (/\ tpc[k] = "cycle" /\ ti \in DOMAIN live_marker_data /\ ti' # ti
         /\ Len(Usable(live_marker_data[ti].obs, camera_poses[k])) >= 2) =>
            tpc'[k] = "cycle"

\* C15: a triangulation of two views, whatever it yields, leaves the engine
\* running.
C15_TwoViewsKeepRunning == [][C15_TwoViewStep]_vars

\* the step in which a triangulation thread leaves its loading part: it goes
\* on to its loop with two poses or more, and otherwise returns, changing
\* nothing of the main thread, the sessions, the listeners, the table or the lock
C16_LoadStep ==
    \A k \in 1..MaxTri : (tpc[k] = "load" /\ tpc'[k] # "load") =>
        IF Cardinality(camera_poses'[k]) >= 2
        THEN tpc'[k] = "sleep"
        ELSE /\ tpc'[k] = "returned"
             /\ UNCHANGED <<mainVars, clientVars, listenVars, tableVars, output_lines>>

\* a thread that has returned stays so
C16_ReturnedStep ==
    \A k \in 1..MaxTri : tpc[k] = "returned" => tpc'[k] = "returned"

PosedObservers(m, k) ==
    {h \in camera_poses[k] : Entry(live_marker_data, m, h) # <<>>}

C18_RegistryHoldsEveryNode ==
    \A n \in Hosts :
        (mpc # "connect_raised" /\ (mpc # "connect" \/ mi > n)) => n \in server_clients

\* session n fails in this step: its connect fails, its listener finds end
\* of stream or an error or goes through disconnect(), or a send to it fails
SessionFails(n) ==
    \/ mpc = "connect" /\ mi = n /\ ~is_connected'[n]
    \/ lpc'[n] # lpc[n] /\ lpc'[n] \in {"disc_check", "disc_107", "disc_108", "break"}
    \/ mpc = "sendall" /\ mi = n /\ sent'[n] = sent[n]

\* a step in which session n fails leaves the main thread running and the
\* other sessions, their listeners, the table and the triangulation threads
\* as they are
C19_FailureStep ==
    \A n \in Hosts : SessionFails(n) =>
        /\ mpc' \notin {"crashed", "connect_raised"}
        /\ \A o \in Hosts \ {n} :
              /\ is_connected'[o] = is_connected[o] /\ state'[o] = state[o]
              /\ lpc'[o] = lpc[o] /\ sock'[o] = sock[o]
        /\ live_marker_data' = live_marker_data
        /\ tpc' = tpc

\* C19: the failure of one session leaves the rest of the system unaffected.
C19_OthersUnaffected == [][C19_FailureStep]_vars

\* connect() on host n is still to come in the startup loop
ConnectPending(n) == mpc = "connect" /\ mi <= n

\* no step makes a passed connect() pending again, and a session that is not
\* connected changes only in its own connect(): no listener is started for
\* it and it is not registered later
C20_Step ==
    \A n \in Hosts :
        /\ (mpc' = "connect" /\ mi' <= n) => ConnectPending(n)
        /\ (~is_connected[n] /\ ~(mpc = "connect" /\ mi = n)) =>
              /\ ~is_connected'[n]
              /\ state[n] = "Disconnected" => state'[n] = "Disconnected"
              /\ lpc[n] \in {"none", "done", "crashed"} => lpc'[n] = lpc[n]
              /\ n \notin server_clients => n \notin server_clients'

\* C20: connect() is called once per configured host, at startup; a session
\* that is Disconnected or whose connect failed stays so for the rest of the run.
C20_NoAutomaticRetry == [][C20_Step]_vars

\* a broadcast of start_stream has passed a session that was connected and
\* is now Disconnected, and a host whose connect failed is not registered
C20_Witness ==
    /\ mpc = "bcast" /\ mcmd = "start_stream"
    /\ \E n \in server_clients :
          /\ state[n] = "Disconnected" /\ lpc[n] = "done"
          /\ mi > n /\ sent[n] = <<>>
    /\ \E f \in Hosts : f \notin server_clients /\ sock[f] = "created"

\* a step that changes the table is a step of the listener that holds the
\* lock and applies an array: the entries of every other host stay, and an
\* entry of its own host that changes becomes the point of the record
C21_BatchStep ==
    live_marker_data' # live_marker_data =>
        \E n \in Hosts :
            /\ data_lock = <<"listener", n>> /\ lpc[n] = "apply"
            /\ \A h \in Hosts \ {n} : Row(live_marker_data', h) = Row(live_marker_data, h)
            /\ \A m \in Markers :
                  Entry(live_marker_data', m, n) # Entry(live_marker_data, m, n) =>
                      /\ lpc'[n] = "apply"
                      /\ Entry(live_marker_data', m, n) = written'[n][m]

\* every marker is one key of the table and every host one key of a marker's dict
C21_OnePointPerPair ==
    /\ \A i, j \in DOMAIN live_marker_data :
          live_marker_data[i].id = live_marker_data[j].id => i = j
    /\ \A i \in DOMAIN live_marker_data :
          \A a, b \in DOMAIN live_marker_data[i].obs :
              live_marker_data[i].obs[a].host = live_marker_data[i].obs[b].host => a = b

\* while an array of host n is applied, the host's entries are those it had
\* before, with the last point of the array for every marker applied so far
C21_BatchEffect ==
    /\ C21_OnePointPerPair
    /\ \A n \in Hosts : lpc[n] = "apply" => Row(live_marker_data, n) = RowAfter(n)

\* C21: an array received from host n changes only the entries (m, n) of the
\* markers m it names, each to the array's last point for m; the entries of
\* the other hosts and of the markers it does not name stay, and the table
\* holds at most one point per marker and host.
C21_BatchChangesOwnEntries == [][C21_BatchStep]_vars /\ []C21_BatchEffect

\* an array of host n that names one marker twice has been applied, over an
\* older point of that marker, while the host's point for another marker and
\* another host's point for the same marker are in the table
C21_Witness ==
    \E n \in Hosts : \E m \in Markers :
        /\ lpc[n] = "apply" /\ idx[n] = 3
        /\ written[n][m] # <<>> /\ rowBefore[n][m] # <<>>
        /\ written[n][m] # rowBefore[n][m]
        /\ \A o \in Markers \ {m} : written[n][o] = <<>> /\ rowBefore[n][o] # <<>>
        /\ \E h \in Hosts \ {n} : Entry(live_marker_data, m, h) # <<>>

\* the step in which a triangulation thread has a marker triangulated that
\* exactly two hosts have observed, both with a pose: the marker's position
\* is added to the output of the cycle
C22_TwoPosedViewsStep ==
    \A k \in 1..MaxTri :
        (/\ tpc[k] = "cycle" /\ ti \in DOMAIN live_marker_data /\ ti' # ti
         /\ Len(live_marker_data[ti].obs) = 2
         /\ Len(Usable(live_marker_data[ti].obs, camera_poses[k])) = 2) =>
            output_lines' = Append(output_lines, live_marker_data[ti].id)

\* C22: the image points of a marker seen by two hosts with poses, given to
\* the triangulation, come back as the marker's position.
C22_TwoViewsGiveAPosition == [][C22_TwoPosedViewsStep]_vars

\* the step in which a triangulation thread has a marker triangulated that
\* three or more hosts with poses have observed: the marker's position, the
\* one the first two of these views give, is added to the output of the cycle
C29_ManyPosedViewsStep ==
    \A k \in 1..MaxTri :
        (/\ tpc[k] = "cycle" /\ ti \in DOMAIN live_marker_data /\ ti' # ti
         /\ Len(Usable(live_marker_data[ti].obs, camera_poses[k])) >= 3) =>
            /\ tpc'[k] = "cycle"
            /\ output_lines' = Append(output_lines, live_marker_data[ti].id)

\* C29: a marker that three or more hosts with poses have observed gets the
\* position that its first two posed views give, whatever the further hosts
\* have reported.
C29_FirstTwoViewsGiveThePosition == [][C29_ManyPosedViewsStep]_vars

\* C23: however a disconnect() of the listener and a disconnect() of the main
\* thread (quit, or a failed send) on one session interleave, the lines
\* 108-110 (state = "Disconnected", sock.close()) are run at most once for
\* the session.
C23_DisconnectRunsOnce == \A n \in Hosts : closeCalls[n] <= 1

\* the task that holds the lock is a listener inside its loop over a
\* received array (lines 84-88) or a triangulation thread inside its loop
\* over the table (lines 205-213) or at line 216: it is not at a socket
\* read, a close, a print, the sleep of line 203 or a file read
C24_HolderAtTableCode ==
    /\ \A n \in Hosts : data_lock = <<"listener", n>> <=> lpc[n] = "apply"
    /\ \A k \in 1..MaxTri : data_lock = <<"triangulation", k>> <=> tpc[k] \in {"locked", "cycle"}
    /\ data_lock # <<>> => \/ \E n \in Hosts : data_lock = <<"listener", n>>
                          \/ \E k \in 1..MaxTri : data_lock = <<"triangulation", k>>

\* a step of the task that holds the lock: a listener stays in its loop over
\* the array or leaves the with block, a triangulation thread stays in its
\* loop over the table or leaves the with block (the step at line 216 leaves
\* it), and the step does nothing to a session or a socket's traffic
C24_HolderStep ==
    /\ \A n \in Hosts :
          (data_lock = <<"listener", n>> /\ (lpc'[n] # lpc[n] \/ idx'[n] # idx[n])) =>
              /\ lpc'[n] \in {"apply", "loop", "crashed"}
              /\ lpc'[n] # "apply" => data_lock' = <<>>
              /\ is_connected' = is_connected /\ state' = state
              /\ sent' = sent /\ closeCalls' = closeCalls
    /\ \A k \in 1..MaxTri :
          (data_lock = <<"triangulation", k>> /\ (tpc'[k] # tpc[k] \/ ti' # ti)) =>
              /\ tpc'[k] \in {"cycle", "sleep", "dead"}
              /\ tpc'[k] # "cycle" => data_lock' = <<>>
              /\ ti > Len(live_marker_data) => tpc'[k] # "cycle"
              /\ sock' = sock /\ is_connected' = is_connected /\ state' = state
              /\ sent' = sent /\ closeCalls' = closeCalls

C25_EntryIsLastReceived ==
    \A n \in Hosts : \A m \in Markers : Entry(live_marker_data, m, n) = lastSeen[n][m]

\* two hosts have each had a second line applied that changed their point
\* for a marker both have reported, and the second of them is being applied
\* while the first host's listener waits with a further line
C25_Witness ==
    \E n, h \in Hosts : \E m \in Markers :
        /\ n # h
        /\ lpc[n] = "apply" /\ rowBefore[n][m] # <<>> /\ written[n][m] # <<>>
        /\ lastSeen[n][m] # rowBefore[n][m]
        /\ lastSeen[h][m] # <<>> /\ lastSeen[h][m] # lastSeen[n][m]
        /\ lpc[h] = "lockwait"

\* the listener that has read end of stream or met a socket error is on its
\* way out: it reads no further line and applies no record
C26_AfterEndOfStreamStep ==
    \A n \in Hosts :
        lpc[n] \in {"disc_check", "disc_107", "disc_108", "break"} =>
            /\ lpc'[n] \in {"disc_check", "disc_107", "disc_108", "break", "done"}
            /\ idx'[n] = idx[n] /\ parsed'[n] = parsed[n] /\ lastSeen'[n] = lastSeen[n]

\* the step in which the listener reads end of stream or meets a socket
\* error takes it to disconnect()
C26_EndOfStreamStep ==
    \A n \in Hosts :
        (lpc[n] = "read" /\ lpc'[n] \notin {"read", "loop", "lockwait", "crashed"}) =>
            lpc'[n] = "disc_check"

\* once the listener has returned and no disconnect() of the session is
\* still running, the session is Disconnected and its descriptor released
C26_ListenerGone ==
    \A n \in Hosts :
        (lpc[n] = "done" /\ ~DiscInProgress(n)) =>
            /\ state[n] = "Disconnected" /\ ~is_connected[n]
            /\ sock[n] = "closed" /\ closeCalls[n] >= 1

\* C26: a listener that reads end of stream or meets a socket error on a
\* Connected session goes through disconnect() and returns without taking
\* another line; the session is then Disconnected and its socket released.
C26_EndOfStreamDisconnects ==
    [][C26_EndOfStreamStep /\ C26_AfterEndOfStreamStep]_vars /\ []C26_ListenerGone

\* before any command was typed a listener has read end of stream, run
\* disconnect() and returned, while another session goes on
C26_Witness ==
    \E n, h \in Hosts :
        /\ mpc = "prompt" /\ mcmd = "none"
        /\ lpc[n] = "done" /\ calls[n] = 1 /\ closeCalls[n] = 1
        /\ state[n] = "Disconnected" /\ sock[n] = "closed"
        /\ is_connected[h] /\ lpc[h] = "read"

\* a listener begins a read only while its session's is_connected is True
C27_NoReadAfterDisconnectStep ==
    \A n \in Hosts : (lpc[n] # "read" /\ lpc'[n] = "read") => is_connected[n]

\* the listener of n is no more: it has returned or died, or the process has ended
ListenerOver(n) == lpc[n] \in {"done", "crashed"} \/ ~ProcessRunning

\* C27: after the main thread has called disconnect() on a Connected
\* session, the session's listener ends, without beginning another read
\* once is_connected is False and whatever the node does.
C27_ListenerEndsAfterDisconnect ==
    /\ [][C27_NoReadAfterDisconnectStep]_vars
    /\ \A n \in Hosts : (mpc = "m_disc_107" /\ mi = n) ~> ListenerOver(n)

\* the main thread alone has called disconnect() on a session, and the
\* session's listener has returned while main is still in its quit loop
C27_Witness ==
    \E n \in Hosts :
        /\ mcmd = "quit" /\ mpc = "quit" /\ mi > n
        /\ calls[n] = 1 /\ closeCalls[n] = 1
        /\ lpc[n] = "done" /\ sock[n] = "closed"

\* C28: whenever a triangulation thread holds the lock and reads the table,
\* every marker key holds the point of at least one host, and every point
\* is a pair of coordinates.
C28_EveryMarkerHasAPoint ==
    \A k \in 1..MaxTri : tpc[k] \in {"locked", "cycle"} =>
        \A i \in DOMAIN live_marker_data :
            /\ live_marker_data[i].obs # <<>>
            /\ \A j \in DOMAIN live_marker_data[i].obs :
                  live_marker_data[i].obs[j].pos \in PosValues

\* the step in which a listener applies a record of its line (line 88) is
\* taken while its session is Connected
C30_WriteStep ==
    \A n \in Hosts :
        (lpc[n] = "apply" /\ idx'[n] > idx[n]) =>
            is_connected[n] /\ state[n] = "Connected"

\* C30: every write to the table for host n happens while the session of n
\* is Connected; after the session has become Disconnected nothing more of
\* the host is applied.
C30_WritesOnlyWhileConnected == [][C30_WriteStep]_vars

\* with healthy connections and silent nodes a session stops being Connected
\* only in a disconnect() that the main thread runs for `quit`
C31_LeaveConnectedStep ==
    \A n \in Hosts :
        ((is_connected[n] /\ ~is_connected'[n]) \/ (state[n] = "Connected" /\ state'[n] # "Connected")) =>
            (mcmd = "quit" /\ mpc \in {"m_disc_107", "m_disc_108"} /\ mi = n /\ mpc' # mpc)

\* C31: a session whose node stays silent on a healthy connection is not
\* disconnected by the coordinator: it leaves Connected only through an
\* explicit disconnect, and until then its listener waits for a line.
C31_SilentNodeStaysConnected == [][C31_LeaveConnectedStep]_vars

\* a triangulation thread that has entered its loop stays in it
C32_CycleStep ==
    \A k \in 1..MaxTri :
        tpc[k] \in {"sleep", "locked", "cycle"} => tpc'[k] \in {"sleep", "locked", "cycle"}

\* C32: once a triangulation thread runs its loop, with the intrinsic file
\* and two poses or more loaded, no content of the table makes it return or
\* raise: it goes from cycle to cycle.
C32_TriangulationKeepsRunning == [][C32_CycleStep]_vars

\* the step in which a listener leaves its update, or a triangulation thread
\* its cycle, by coming to the end, by `continue` or by an exception,
\* releases the lock
C33_ReleaseStep ==
    /\ \A n \in Hosts : (lpc[n] = "apply" /\ lpc'[n] # "apply") => data_lock' = <<>>
    /\ \A k \in 1..MaxTri :
          (tpc[k] \in {"locked", "cycle"} /\ tpc'[k] \notin {"locked", "cycle"}) =>
              data_lock' = <<>>

\* the lock is held by no thread that has ended
C33_HolderLives ==
    /\ \A n \in Hosts : data_lock = <<"listener", n>> => lpc[n] = "apply"
    /\ \A k \in 1..MaxTri : data_lock = <<"triangulation", k>> => tpc[k] \in {"locked", "cycle"}

\* C33: the lock is released at the end of every update and of every
\* triangulation cycle, the cycles that skip an empty table and the paths
\* that raise included; a held lock is released in the end, and a listener
\* that waits for the lock gets it in the end.
C33_LockAlwaysReleased ==
    /\ [][C33_ReleaseStep]_vars
    /\ []C33_HolderLives
    /\ (data_lock # <<>>) ~> (data_lock = <<>>)
    /\ \A n \in Hosts : (lpc[n] = "lockwait") ~> (lpc[n] = "apply")

\* a listener holds the lock after the triangulation thread and another
\* listener have each left the with block by an exception
C33_Witness ==
    \E n, h \in Hosts :
        /\ tpc[1] = "dead" /\ lpc[h] = "crashed"
        /\ lpc[n] = "apply" /\ data_lock = <<"listener", n>>

\* C34: for every session the flag is_connected is True exactly when state
\* is "Connected"; a listener exists only for a session whose connect()
\* succeeded, and a session whose connect() failed or was not tried has
\* is_connected False, state "Disconnected" and no listener.
C34_FlagMatchesState ==
    \A n \in Hosts :
        /\ is_connected[n] <=> state[n] = "Connected"
        /\ lpc[n] # "none" => n \in server_clients
        /\ n \notin server_clients =>
              ~is_connected[n] /\ state[n] = "Disconnected" /\ lpc[n] = "none"

====
